---------------------------- MODULE Spec2Model ----------------------------
(***************************************************************************)
(* Department of Lost Circuits: the sheet renderer of sketch.js and the    *)
(* EasyGrid it lays its stamps out on, as a state machine.                 *)
(*                                                                         *)
(* 32-bit quantities (the hash, the state of the seeded random stream) are *)
(* pairs <<hi, lo>> of 16-bit halves, value hi * 2^16 + lo, so that every  *)
(* intermediate product stays below 2^31.                                  *)
(***************************************************************************)
EXTENDS Integers, Sequences, FiniteSets, TLC

(***************************************************************************)
(* Program constants.                                                      *)
(***************************************************************************)
COLS == 5
ROWS == 4
InitialBaseSeed == 1337
CANVAS_W == 2400
CANVAS_H == 3000
MARGIN == 100
GUTTER == 60
NaN == -1            \* release_year when no year was parsed

(***************************************************************************)
(* Bounds of the model.                                                    *)
(***************************************************************************)
MaxRecords == 41
MaxImages == 2
MaxReseeds == 1

W16 == 65536

(***************************************************************************)
(* 32-bit helpers.                                                         *)
(***************************************************************************)
RECURSIVE BitXor(_, _)
BitXor(a, b) ==
    IF a = 0 THEN b
    ELSE IF b = 0 THEN a
    ELSE ((a + b) % 2) + 2 * BitXor(a \div 2, b \div 2)

\* x + d modulo 2^32 for a small signed d (|d| < 2^16)
U32AddSmall(x, d) ==
    LET t == x[2] + d
    IN  IF t >= W16 THEN <<(x[1] + 1) % W16, t - W16>>
        ELSE IF t < 0 THEN <<(x[1] + W16 - 1) % W16, t + W16>>
        ELSE <<x[1], t>>

\* 2^32 - x modulo 2^32
U32Neg(x) ==
    IF x[2] = 0 THEN <<(W16 - x[1]) % W16, 0>>
    ELSE <<W16 - 1 - x[1], W16 - x[2]>>

\* x >= y on pairs
U32Geq(x, y) == x[1] > y[1] \/ (x[1] = y[1] /\ x[2] >= y[2])

(***************************************************************************)
(* Strings are sequences of UTF-16 code units, as charCodeAt reads them.   *)
(***************************************************************************)
RECURSIVE DecimalString(_)
DecimalString(k) ==
    IF k < 10 THEN <<48 + k>>
    ELSE Append(DecimalString(k \div 10), 48 + (k % 10))

\* `${baseSeed}::${id}`
SeedKey(seedNum, id) == DecimalString(seedNum) \o <<58, 58>> \o id

(***************************************************************************)
(* hash(s): h starts at 2166136261; per code unit  h ^= c  (a signed       *)
(* 32-bit result) and  h = (h * 16777619) >>> 0 , where the product is a   *)
(* double: above 2^53 it is rounded to the nearest representable value     *)
(* (ties to even) before it is reduced modulo 2^32.                        *)
(***************************************************************************)
\* the unit in the last place of a double holding a product of magnitude
\* mag * 16777619
ProductUlp(mag) ==
    IF U32Geq(mag, <<32767, 13954>>) THEN 8       \* product >= 2^55
    ELSE IF U32Geq(mag, <<16383, 39745>>) THEN 4  \* product >= 2^54
    ELSE IF U32Geq(mag, <<8191, 52641>>) THEN 2   \* product >= 2^53
    ELSE 1

\* mag * 16777619 modulo 2^32 (16777619 = 2^24 + 403)
MulPrimeLow(mag) ==
    LET t == mag[2] * 403
    IN  <<(mag[1] * 403 + (t \div W16) + (mag[2] % 256) * 256) % W16, t % W16>>

\* what rounding to a multiple of ulp (nearest, ties to even) adds to a
\* number whose low bits are those of low
RoundDelta(low, ulp) ==
    LET r == low % ulp
        down == low - r
    IN  IF 2 * r < ulp THEN 0 - r
        ELSE IF 2 * r > ulp THEN ulp - r
        ELSE IF down % (2 * ulp) = 0 THEN 0 - r
        ELSE ulp - r

HashStep(h, c) ==
    LET x    == <<h[1], BitXor(h[2], c)>>
        neg  == x[1] >= 32768
        mag  == IF neg THEN U32Neg(x) ELSE x
        low  == MulPrimeLow(mag)
        ulp  == ProductUlp(mag)
        rnd  == U32AddSmall(low, RoundDelta(low[2], ulp))
    IN  IF neg THEN U32Neg(rnd) ELSE rnd

RECURSIVE HashFrom(_, _, _)
HashFrom(h, s, i) ==
    IF i > Len(s) THEN h ELSE HashFrom(HashStep(h, s[i]), s, i + 1)

hash(s) == HashFrom(<<33052, 40389>>, s, 1)

(***************************************************************************)
(* The seeded random stream behind random(): the 32-bit linear             *)
(* congruential generator  z' = (1664525 * z + 1013904223) mod 2^32 ,      *)
(* each draw returning z' / 2^32.                                          *)
(***************************************************************************)
LcgNext(z) ==
    LET t == 26125 * z[2] + 62303
    IN  <<(26125 * z[1] + 25 * z[2] + 15470 + (t \div W16)) % W16, t % W16>>

\* x + y and x * y modulo 2^32 on pairs (y is split into bytes)
U32Add(x, y) ==
    LET t == x[2] + y[2]
    IN  <<(x[1] + y[1] + (t \div W16)) % W16, t % W16>>

MulHalf(u, v) == (u * (v % 256) + ((u * (v \div 256)) % 256) * 256) % W16

U32Mul(x, y) ==
    LET p0 == x[2] * (y[2] % 256)
        p1 == x[2] * (y[2] \div 256)
        t  == p0 + (p1 % 256) * 256
    IN  <<((t \div W16) + (p1 \div 256) + MulHalf(x[1], y[2])
            + MulHalf(x[2], y[1])) % W16,
          t % W16>>

\* k draws in a row are the affine map z |-> A * z + C (mod 2^32) with
\* <<A, C>> = LcgPower(k): LcgPower(1) is LcgNext, and the map for k
\* draws is the map for k \div 2 draws applied twice, then LcgNext once
\* more when k is odd.
RECURSIVE LcgPower(_)
LcgPower(k) ==
    IF k = 0 THEN <<(<<0, 1>>), (<<0, 0>>)>>
    ELSE LET h  == LcgPower(k \div 2)
             sq == <<U32Mul(h[1], h[1]), U32Add(U32Mul(h[1], h[2]), h[2])>>
         IN  IF k % 2 = 0 THEN sq
             ELSE <<U32Mul(<<25, 26125>>, sq[1]),
                    U32Add(U32Mul(<<25, 26125>>, sq[2]), <<15470, 62303>>)>>

\* the state of the stream k draws after state z
LcgSkip(z, k) ==
    LET p == LcgPower(k) IN U32Add(U32Mul(p[1], z), p[2])

\* floor(random(4)) for the draw that left the stream at z
Floor4(z) == z[1] \div 16384

\* floor(random(1e9)) for the draw that left the stream at z:
\* floor(z * 10^9 / 2^32), with 10^9 = 15258 * 2^16 + 202 * 2^8
FloorBillion(z) ==
    LET y == z[2] * 15258 + ((z[2] * 202) \div 256)
    IN  z[1] * 15258 + ((z[1] * 202 + (y \div 256)) \div 256)


(***************************************************************************)
(* The random stream as the program holds it: unseeded (random() then      *)
(* falls back on Math.random), or seeded by randomSeed and advanced by     *)
(* `draws` draws.  The numeric state is StreamState(r).                    *)
(***************************************************************************)
Unseeded == [key |-> <<>>, draws |-> 0]
IsSeeded(r) == r.key # <<>>
\* a seeded stream's key is <<baseSeed, id>>: it was seeded with
\* hash(`${baseSeed}::${id}`)
StreamSeed(k) == hash(SeedKey(k[1], k[2]))
StreamState(r) == LcgSkip(StreamSeed(r.key), r.draws)

(***************************************************************************)
(* State.                                                                  *)
(***************************************************************************)
VARIABLES
    table,          \* the rows loadTable delivered, or "missing"
    risoLib,        \* typeof Riso !== 'undefined'
    pc,             \* "setup" before setup() has run, "ready" after
    devices,        \* the records setup() built
    imagesToLoad, imagesLoaded, imagesFailed,
    grid,           \* the EasyGrid, or NoGrid
    sheetIndex, baseSeed,
    USE_RISO, SHOW_TRACES,
    layers,         \* L_BLACK and L_TEAL exist
    plates,         \* what the two ink plates hold
    rng,            \* the global random stream
    canvas,         \* what the display shows
    exported,       \* exportRiso() has saved the two plates
    console,        \* the warnings keyPressed() has written to the console
    reseeds,        \* number of reseed commands so far (bounds the model)
    call            \* a function called on its own: its name, its arguments
                    \* and what it returned; NoCall while the sketch runs

sketch == <<table, risoLib, pc, devices, imagesToLoad, imagesLoaded,
            imagesFailed, grid, sheetIndex, baseSeed, USE_RISO, SHOW_TRACES,
            layers, plates, rng, canvas, exported, console, reseeds>>

vars == <<sketch, call>>

NoCall == [op |-> "none"]


(***************************************************************************)
(* EasyGrid.  The divisions below are exact for the sketch's grid and for  *)
(* every grid of GridOptions.                                              *)
(***************************************************************************)
NullCell == [null |-> TRUE]
NoGrid == [x |-> 0, y |-> 0, width |-> 0, height |-> 0, cols |-> 0,
           rows |-> 0, gutterX |-> 0, gutterY |-> 0, moduleWidth |-> 0,
           moduleHeight |-> 0, modules |-> <<>>]

\* a constructor that leaves the gutters out of the cells' positions
EasyGridNoGutter(o) ==
    LET mw == (o.width - o.gutterX * (o.cols - 1)) \div o.cols
        mh == (o.height - o.gutterY * (o.rows - 1)) \div o.rows
    IN  [x |-> o.x, y |-> o.y, width |-> o.width, height |-> o.height,
         cols |-> o.cols, rows |-> o.rows,
         gutterX |-> o.gutterX, gutterY |-> o.gutterY,
         moduleWidth |-> mw, moduleHeight |-> mh,
         modules |->
            [k \in 1..(o.rows * o.cols) |->
                LET col == (k - 1) % o.cols
                    row == (k - 1) \div o.cols
                IN  [x |-> o.x + col * mw,
                     y |-> o.y + row * mh,
                     width |-> mw, height |-> mh,
                     col |-> col, row |-> row, index |-> row * o.cols + col]]]

EasyGrid(o) ==
    LET mw == (o.width - o.gutterX * (o.cols - 1)) \div o.cols
        mh == (o.height - o.gutterY * (o.rows - 1)) \div o.rows
    IN  [x |-> o.x, y |-> o.y, width |-> o.width, height |-> o.height,
         cols |-> o.cols, rows |-> o.rows,
         gutterX |-> o.gutterX, gutterY |-> o.gutterY,
         moduleWidth |-> mw, moduleHeight |-> mh,
         modules |->
            [k \in 1..(o.rows * o.cols) |->
                LET col == (k - 1) % o.cols
                    row == (k - 1) \div o.cols
                IN  [x |-> o.x + col * (mw + o.gutterX),
                     y |-> o.y + row * (mh + o.gutterY),
                     width |-> mw, height |-> mh,
                     col |-> col, row |-> row, index |-> row * o.cols + col]]]

\* a lookup that wraps around the grid instead of refusing
getModuleWrapped(g, col, row) ==
    g.modules[(row % g.rows) * g.cols + (col % g.cols) + 1]

getModule(g, col, row) ==
    IF col < 0 \/ col >= g.cols \/ row < 0 \/ row >= g.rows
    THEN NullCell
    ELSE g.modules[row * g.cols + col + 1]

(***************************************************************************)
(* The stamp composers, as far as they touch the random stream.            *)
(***************************************************************************)
constrain(v, lo, hi) == IF v < lo THEN lo ELSE IF v > hi THEN hi ELSE v

TraceYear(d) ==
    IF d.release_year = NaN THEN 1990 ELSE constrain(d.release_year, 1960, 2020)

\* floor(map(yr, 1960, 2020, 18, 7)) and floor(map(yr, 1960, 2020, 25, 8))
BaseLines(d) == 18 - ((11 * (TraceYear(d) - 1960) + 59) \div 60)
NumLines(d) == 25 - ((17 * (TraceYear(d) - 1960) + 59) \div 60)

\* draws drawCircuits takes: per polyline 2 for the start, 2 per segment
drawCircuits(d, show) == IF ~show THEN 0 ELSE BaseLines(d) * (2 + 3 * 2)
drawCircuits_toPG(d, show) == IF ~show THEN 0 ELSE NumLines(d) * (2 + 4 * 2)

BorderStyles == <<"perforated", "scalloped", "zigzag", "ticket">>

\* pickBorderStyle() as draw number n of the stream with key k
pickBorderStyle(k, n) == BorderStyles[Floor4(LcgSkip(StreamSeed(k), n)) + 1]

\* One stamp as drawn: the record, the index of the module it is drawn in
\* (-1 when the lookup gave null), the stream it draws from, the draws its
\* traces took and the number of the draw that picked its border.
CellIndex(cell) == IF cell = NullCell THEN -1 ELSE cell.index

drawStamp(d, i, cell, r, show) ==
    [rec |-> i, cell |-> CellIndex(cell), key |-> r.key,
     traceDraws |-> drawCircuits(d, show),
     borderDraw |-> r.draws + drawCircuits(d, show) + 1]

drawStampRiso(d, i, cell, r, show) ==
    [rec |-> i, cell |-> CellIndex(cell), key |-> r.key,
     traceDraws |-> drawCircuits_toPG(d, show),
     borderDraw |-> r.draws + drawCircuits_toPG(d, show) + 1]

StampBorder(st) == pickBorderStyle(st.key, st.borderDraw)

\* a loop that seeds the stream only when it has no seed yet
SeededStreamOnce(seedNum, d, r) ==
    IF IsSeeded(r) THEN r ELSE [key |-> <<seedNum, d.id>>, draws |-> 0]

\* randomSeed(hash(`${baseSeed}::${d.id}`)) replaces the stream r
SeededStream(seedNum, d, r) == [key |-> <<seedNum, d.id>>, draws |-> 0]


(***************************************************************************)
(* RISO layers.                                                            *)
(***************************************************************************)
risoReady == risoLib

EmptyPlates == [reg |-> FALSE, black |-> <<>>, teal |-> <<>>]

\* an ensureRisoLayers() that does not ask whether the library is there
ensureRisoLayersUnguarded(lyr) == [ok |-> TRUE, layers |-> TRUE]

\* ensureRisoLayers(): the result and whether the layers exist afterwards
ensureRisoLayers(lyr) == [ok |-> risoReady, layers |-> lyr \/ risoReady]

(***************************************************************************)
(* The globals drawSheet() reads, as a record G, so that a handler can run *)
(* it on the values it has just assigned.                                  *)
(***************************************************************************)
Globals ==
    [devices |-> devices, grid |-> grid, imagesToLoad |-> imagesToLoad,
     imagesLoaded |-> imagesLoaded, imagesFailed |-> imagesFailed,
     sheetIndex |-> sheetIndex, baseSeed |-> baseSeed,
     USE_RISO |-> USE_RISO, SHOW_TRACES |-> SHOW_TRACES,
     layers |-> layers, plates |-> plates, rng |-> rng, canvas |-> canvas]

(***************************************************************************)
(* drawSheet().                                                            *)
(***************************************************************************)
PerSheet == COLS * ROWS
SheetStart(G) == G.sheetIndex * PerSheet

\* an end of the page that is not clipped to a page's length
SheetEndUnpaged(G) == Len(G.devices)

SheetEnd(G) ==
    IF SheetStart(G) + PerSheet < Len(G.devices)
    THEN SheetStart(G) + PerSheet ELSE Len(G.devices)

\* the value of a one-element set
The(S) == CHOOSE v \in S : TRUE

\* a loop body that looks the cell up by the record's number, not by its
\* offset in the sheet
StampAtByRecord(G, i, riso, r) ==
    LET d    == G.devices[i + 1]
        cell == getModule(G.grid, i % COLS, i \div COLS)
        sr   == SeededStream(G.baseSeed, d, r)
    IN  IF riso THEN drawStampRiso(d, i, cell, sr, G.SHOW_TRACES)
        ELSE drawStamp(d, i, cell, sr, G.SHOW_TRACES)

\* the body of the loop for record i, with the stream r as it stands
StampAt(G, i, riso, r) ==
    LET d    == G.devices[i + 1]
        idx  == i - SheetStart(G)
        cell == getModule(G.grid, idx % COLS, idx \div COLS)
        sr   == SeededStream(G.baseSeed, d, r)
    IN  IF riso THEN drawStampRiso(d, i, cell, sr, G.SHOW_TRACES)
        ELSE drawStamp(d, i, cell, sr, G.SHOW_TRACES)

\* the for loop over the sheet's records, i = start .. end - 1, from
\* record i on; r is the random stream, acc the stamps drawn so far
RECURSIVE SheetLoop(_, _, _, _, _)
SheetLoop(G, i, riso, r, acc) ==
    IF i >= SheetEnd(G) THEN [stamps |-> acc, rng |-> r]
    ELSE The({ SheetLoop(G, i + 1, riso,
                         [key |-> st.key, draws |-> st.borderDraw],
                         Append(acc, st)) :
               st \in {StampAt(G, i, riso, r)} })

BlankCanvas == [kind |-> "blank", stamps |-> <<>>, toast |-> FALSE,
                progress |-> <<>>]

\* background(): the whole canvas is repainted, whatever it showed
background(c) == BlankCanvas

\* a drawSheet that waits only until the first load has settled
ImagesPendingUntilFirst(G) ==
    G.imagesToLoad > 0 /\ G.imagesLoaded + G.imagesFailed = 0

\* whether drawSheet stops at the image-loading overlay
ImagesPending(G) ==
    G.imagesToLoad > 0 /\ G.imagesLoaded + G.imagesFailed < G.imagesToLoad

\* clearRiso(): every layer is wiped
clearRiso(plt) == EmptyPlates

\* the records of a list of stamps that name an image: those
\* drawImageHalftone_toLayer looks an image up for
WithImage(G, stamps) ==
    LET recs == [j \in 1..Len(stamps) |-> stamps[j].rec]
        HasImage(i) == G.devices[i + 1].image_path # 0
    IN  SelectSeq(recs, HasImage)

\* drawSheet() run on the globals G; the result holds the globals it
\* writes.  Every path starts with background().
drawSheet(G) ==
    IF ~table.ok \/ Len(G.devices) = 0 \/ G.grid = NoGrid
    THEN [canvas |-> [background(G.canvas) EXCEPT !.kind = "loading"],
          layers |-> G.layers, plates |-> G.plates, rng |-> G.rng]
    ELSE IF ImagesPending(G)
    THEN [canvas |-> [background(G.canvas) EXCEPT
                        !.kind = "progress",
                        !.progress = <<G.imagesLoaded, G.imagesToLoad>>],
          layers |-> G.layers, plates |-> G.plates, rng |-> G.rng]
    ELSE IF ~G.USE_RISO \/ ~ensureRisoLayers(G.layers).ok
    THEN LET res == SheetLoop(G, SheetStart(G), FALSE, G.rng, <<>>)
         IN  [canvas |-> [background(G.canvas) EXCEPT
                            !.kind = "rgb", !.stamps = res.stamps],
              layers |-> G.layers, plates |-> G.plates, rng |-> res.rng]
    ELSE LET res == SheetLoop(G, SheetStart(G), TRUE, G.rng, <<>>)
             wiped == clearRiso(G.plates)
             inked == [reg |-> TRUE, black |-> wiped.black \o res.stamps,
                       teal |-> wiped.teal \o WithImage(G, res.stamps)]
         IN  [canvas |-> [background(G.canvas) EXCEPT
                            !.kind = "riso", !.stamps = inked.black],
              layers |-> TRUE, plates |-> inked, rng |-> res.rng]

\* the handler's closing drawSheet() call, as an action
Render(G0) ==
    \E G \in {G0} : \E out \in {drawSheet(G)} :
        /\ canvas' = out.canvas
        /\ layers' = out.layers
        /\ plates' = out.plates
        /\ rng' = out.rng

(***************************************************************************)
(* The table preload() delivers: n rows, n = 0, a count around one full    *)
(* sheet, 23, or the largest count of the model (three sheets).  The first *)
(* two rows carry the same name, the others none (their id is their row    *)
(* number); the years cycle over YearCycle; the image paths cycle over k   *)
(* files (k = 0: no row names an image, or k = MaxImages).                 *)
(***************************************************************************)
YearCycle == <<NaN, 1984, 2007>>

TableRow(r, k) ==
    [name |-> IF r <= 2 THEN <<68>> ELSE <<>>,
     year |-> YearCycle[((r - 1) % Len(YearCycle)) + 1],
     image_path |-> IF k = 0 THEN 0 ELSE ((r - 1) % k) + 1]

RecordCounts == {0, PerSheet - 1, PerSheet, PerSheet + 1, 23, MaxRecords}

Tables ==
    {[ok |-> FALSE, rows |-> <<>>]} \cup
    {[ok |-> TRUE, rows |-> [r \in 1..n |-> TableRow(r, k)]] :
        n \in RecordCounts, k \in {0, MaxImages}}

\* the values Math.random() * 1e9 is sampled at while the stream is unseeded
MathRandomSeeds == {7, 999999999}

\* the options setup() builds the grid from
SketchGridOptions ==
    [x |-> MARGIN, y |-> MARGIN,
     width |-> CANVAS_W - MARGIN * 2, height |-> CANVAS_H - MARGIN * 2,
     cols |-> COLS, rows |-> ROWS, gutterX |-> GUTTER, gutterY |-> GUTTER]

\* the globals as their declarations leave them
InitialGlobals ==
    /\ pc = "setup"
    /\ devices = <<>>
    /\ imagesToLoad = 0 /\ imagesLoaded = 0 /\ imagesFailed = 0
    /\ sheetIndex = 0 /\ baseSeed = InitialBaseSeed
    /\ USE_RISO = FALSE /\ SHOW_TRACES = TRUE
    /\ layers = FALSE /\ plates = EmptyPlates
    /\ rng = Unseeded
    /\ canvas = BlankCanvas
    /\ exported = FALSE
    /\ console = {}
    /\ reseeds = 0

Init ==
    /\ table \in Tables
    /\ risoLib \in BOOLEAN
    /\ grid = NoGrid
    /\ InitialGlobals
    /\ call = NoCall

(***************************************************************************)
(* setup().                                                                *)
(***************************************************************************)
\* the record built from row number r (counted from 1)
DeviceRecord(r) ==
    LET row == table.rows[r]
    IN  [id |-> IF row.name # <<>> THEN row.name ELSE DecimalString(r),
         release_year |-> row.year,
         image_path |-> row.image_path]

\* one load is queued per distinct non-empty image path
QueuedImages == {table.rows[r].image_path : r \in 1..Len(table.rows)} \ {0}

Setup ==
    /\ pc = "setup"
    /\ pc' = "ready"
    /\ IF ~table.ok \/ Len(table.rows) = 0
       THEN UNCHANGED <<devices, imagesToLoad, grid, canvas, layers, plates,
                        rng>>
       ELSE /\ devices' = [r \in 1..Len(table.rows) |-> DeviceRecord(r)]
            /\ imagesToLoad' = Cardinality(QueuedImages)
            /\ grid' = EasyGrid(SketchGridOptions)
            /\ Render([Globals EXCEPT !.devices = devices',
                                      !.imagesToLoad = imagesToLoad',
                                      !.grid = grid'])
    /\ UNCHANGED call
    /\ UNCHANGED <<table, risoLib, imagesLoaded, imagesFailed, sheetIndex,
                   baseSeed, USE_RISO, SHOW_TRACES, exported, console, reseeds>>

(***************************************************************************)
(* The image-load callbacks setup() registered.                            *)
(***************************************************************************)
LoadsOutstanding == imagesLoaded + imagesFailed < imagesToLoad

ImageLoaded ==
    /\ pc = "ready" /\ LoadsOutstanding
    /\ imagesLoaded' = imagesLoaded + 1
    /\ IF imagesLoaded' + imagesFailed = imagesToLoad
       THEN Render([Globals EXCEPT !.imagesLoaded = imagesLoaded'])
       ELSE UNCHANGED <<canvas, layers, plates, rng>>
    /\ UNCHANGED call
    /\ UNCHANGED <<table, risoLib, pc, devices, imagesToLoad, imagesFailed,
                   grid, sheetIndex, baseSeed, USE_RISO, SHOW_TRACES,
                   exported, console, reseeds>>

\* an error callback that counts the failure and never redraws
ImageFailedNoRedraw ==
    /\ pc = "ready" /\ LoadsOutstanding
    /\ imagesFailed' = imagesFailed + 1
    /\ UNCHANGED call
    /\ UNCHANGED <<table, risoLib, pc, devices, imagesToLoad, imagesLoaded,
                   grid, sheetIndex, baseSeed, USE_RISO, SHOW_TRACES,
                   layers, plates, rng, canvas, exported, console, reseeds>>

ImageFailed ==
    /\ pc = "ready" /\ LoadsOutstanding
    /\ imagesFailed' = imagesFailed + 1
    /\ IF imagesLoaded + imagesFailed' = imagesToLoad
       THEN Render([Globals EXCEPT !.imagesFailed = imagesFailed'])
       ELSE UNCHANGED <<canvas, layers, plates, rng>>
    /\ UNCHANGED call
    /\ UNCHANGED <<table, risoLib, pc, devices, imagesToLoad, imagesLoaded,
                   grid, sheetIndex, baseSeed, USE_RISO, SHOW_TRACES,
                   exported, console, reseeds>>

(***************************************************************************)
(* keyPressed(), one action per command.                                   *)
(***************************************************************************)
\* 'c': toggle the circuit traces
KeyC ==
    /\ pc = "ready"
    /\ SHOW_TRACES' = ~SHOW_TRACES
    /\ Render([Globals EXCEPT !.SHOW_TRACES = SHOW_TRACES'])
    /\ UNCHANGED call
    /\ UNCHANGED <<table, risoLib, pc, devices, imagesToLoad, imagesLoaded,
                   imagesFailed, grid, sheetIndex, baseSeed, USE_RISO,
                   exported, console, reseeds>>

\* 'r': baseSeed = floor(random(1e9)), one draw of the global stream
KeyR ==
    /\ pc = "ready" /\ reseeds < MaxReseeds
    /\ reseeds' = reseeds + 1
    /\ LET drawn == [rng EXCEPT !.draws = @ + 1]
       IN  IF IsSeeded(rng)
           THEN /\ baseSeed' = FloorBillion(StreamState(drawn))
                /\ Render([Globals EXCEPT !.baseSeed = baseSeed',
                                          !.rng = drawn])
           ELSE /\ baseSeed' \in MathRandomSeeds
                /\ Render([Globals EXCEPT !.baseSeed = baseSeed'])
    /\ UNCHANGED call
    /\ UNCHANGED <<table, risoLib, pc, devices, imagesToLoad, imagesLoaded,
                   imagesFailed, grid, sheetIndex, USE_RISO, SHOW_TRACES,
                   exported, console>>

\* 's': saveCanvas() writes the canvas to a file; no global changes
KeyS ==
    /\ pc = "ready"
    /\ UNCHANGED call
    /\ UNCHANGED <<table, risoLib, pc, devices, imagesToLoad, imagesLoaded,
                   imagesFailed, grid, sheetIndex, baseSeed, USE_RISO,
                   SHOW_TRACES, layers, plates, rng, canvas, exported, console,
                   reseeds>>

\* a sheet count that rounds down and adds one
TotalSheetsFloorPlusOne(n) == (n \div PerSheet) + 1

\* max(1, ceil(devices.length / (COLS * ROWS)))
TotalSheets(n) ==
    LET c == (n + PerSheet - 1) \div PerSheet IN IF c < 1 THEN 1 ELSE c

KeyRight ==
    /\ pc = "ready"
    /\ sheetIndex' = (sheetIndex + 1) % TotalSheets(Len(devices))
    /\ Render([Globals EXCEPT !.sheetIndex = sheetIndex'])
    /\ UNCHANGED call
    /\ UNCHANGED <<table, risoLib, pc, devices, imagesToLoad, imagesLoaded,
                   imagesFailed, grid, baseSeed, USE_RISO, SHOW_TRACES,
                   exported, console, reseeds>>

KeyLeft ==
    /\ pc = "ready"
    /\ sheetIndex' = (sheetIndex - 1 + TotalSheets(Len(devices)))
                        % TotalSheets(Len(devices))
    /\ Render([Globals EXCEPT !.sheetIndex = sheetIndex'])
    /\ UNCHANGED call
    /\ UNCHANGED <<table, risoLib, pc, devices, imagesToLoad, imagesLoaded,
                   imagesFailed, grid, baseSeed, USE_RISO, SHOW_TRACES,
                   exported, console, reseeds>>

\* the toast the 'l' handler paints when p5.riso is missing
Toast(c) == [c EXCEPT !.toast = TRUE]

\* 'l': toggle the RISO preview
KeyL ==
    /\ pc = "ready"
    /\ IF ~ensureRisoLayers(layers).ok
       THEN /\ console' = console \cup {"riso not loaded"}
            /\ USE_RISO' = USE_RISO
            /\ Render([Globals EXCEPT !.canvas = Toast(canvas)])
       ELSE /\ console' = console
            /\ USE_RISO' = ~USE_RISO
            /\ Render([Globals EXCEPT
                         !.USE_RISO = USE_RISO',
                         !.layers = ensureRisoLayers(layers).layers])
    /\ UNCHANGED call
    /\ UNCHANGED <<table, risoLib, pc, devices, imagesToLoad, imagesLoaded,
                   imagesFailed, grid, sheetIndex, baseSeed, SHOW_TRACES,
                   exported, reseeds>>

\* exportRiso(): both plates are saved
exportRiso == TRUE

\* 'e': export the plates
KeyE ==
    /\ pc = "ready"
    /\ IF USE_RISO /\ ensureRisoLayers(layers).ok
       THEN /\ exported' = exportRiso
            /\ layers' = ensureRisoLayers(layers).layers
            /\ console' = console
       ELSE /\ console' = console \cup {"export refused"}
            /\ UNCHANGED <<exported, layers>>
    /\ UNCHANGED call
    /\ UNCHANGED <<table, risoLib, pc, devices, imagesToLoad, imagesLoaded,
                   imagesFailed, grid, sheetIndex, baseSeed, USE_RISO,
                   SHOW_TRACES, plates, rng, canvas, reseeds>>

Next ==
    \/ Setup
    \/ ImageLoaded
    \/ ImageFailed
    \/ KeyC
    \/ KeyR
    \/ KeyS
    \/ KeyRight
    \/ KeyLeft
    \/ KeyL
    \/ KeyE

Spec == Init /\ [][Next]_vars

(***************************************************************************)
(* Every image load that is outstanding settles, by either callback, and   *)
(* setup() runs: the browser delivers each load's result and calls setup() *)
(* once preload() is done.  Key commands are never forced.  The tables are *)
(* the empty ones, one record, and one record more than a sheet.           *)
(***************************************************************************)
FairInit == Init /\ Len(table.rows) \in {0, 1, PerSheet + 1}

FairSpec ==
    /\ FairInit /\ [][Next]_vars
    /\ WF_vars(Setup) /\ WF_vars(ImageLoaded \/ ImageFailed)

(***************************************************************************)
(* Properties.                                                             *)
(***************************************************************************)
FullRender == canvas.kind \in {"rgb", "riso"}
Recs(stamps) == [j \in 1..Len(stamps) |-> stamps[j].rec]
RecordCount == Len(table.rows)

\* C1: while fewer image loads have settled than were requested, whatever
\* callbacks and key commands have run, the display holds the loading
\* overlay and no stamp, and drawSheet() run on the current globals draws
\* no stamp and leaves the plates and the random stream alone.
C1_NoStampWhileLoading ==
    (pc = "ready" /\ devices # <<>> /\ LoadsOutstanding) =>
        /\ canvas.kind = "progress"
        /\ canvas.stamps = <<>>
        /\ \E out \in {drawSheet(Globals)} :
              /\ out.canvas.kind = "progress" /\ out.canvas.stamps = <<>>
              /\ out.plates = plates /\ out.rng = rng

\* a load has settled, another is outstanding, and key commands have
\* redrawn the sheet in between (traces off, sheet advanced)
C1_Witness ==
    /\ pc = "ready" /\ LoadsOutstanding
    /\ imagesLoaded + imagesFailed > 0
    /\ ~SHOW_TRACES /\ sheetIndex = 1
    /\ canvas.kind = "progress"

\* C2: with a non-empty record set, once every requested load has settled
\* (in any mix of successes and failures) the display holds a full render
\* with stamps, and when every load settles that render eventually happens.
C2_SettledLeadsToRender ==
    /\ [](pc = "ready" /\ devices # <<>> /\ ~LoadsOutstanding
            => FullRender /\ canvas.stamps # <<>>)
    /\ (table.ok /\ RecordCount > 0) ~> (FullRender /\ canvas.stamps # <<>>)

\* every load has settled, one by success and one by failure, and the
\* sheet is drawn
C2_Witness ==
    /\ imagesLoaded > 0 /\ imagesFailed > 0 /\ ~LoadsOutstanding
    /\ FullRender /\ canvas.stamps # <<>>

\* total = max(1, ceil(recordCount / (COLS * ROWS)))
SheetTotal(n) == IF n = 0 THEN 1 ELSE ((n - 1) \div (COLS * ROWS)) + 1

\* C3: 0 <= sheetIndex < total always; RIGHT_ARROW moves from sheet
\* total - 1 to sheet 0 and otherwise one sheet up, LEFT_ARROW from sheet 0
\* to sheet total - 1 and otherwise one sheet down.
C3_SheetIndexWraps ==
    /\ [](sheetIndex >= 0 /\ sheetIndex < SheetTotal(Len(devices)))
    /\ [][/\ (sheetIndex = SheetTotal(Len(devices)) - 1 /\ KeyRight)
                => sheetIndex' = 0
          /\ (sheetIndex < SheetTotal(Len(devices)) - 1 /\ KeyRight)
                => sheetIndex' = sheetIndex + 1
          /\ (sheetIndex = 0 /\ KeyLeft)
                => sheetIndex' = SheetTotal(Len(devices)) - 1
          /\ (sheetIndex > 0 /\ KeyLeft)
                => sheetIndex' = sheetIndex - 1]_vars

\* the last of three sheets is shown
C3_Witness ==
    /\ SheetTotal(Len(devices)) = 3 /\ sheetIndex = 2
    /\ FullRender /\ canvas.stamps # <<>>

\* the records [k * pageSize, min(k * pageSize + pageSize, n)) in order
PageRecords(k, n) ==
    LET lo == k * (COLS * ROWS)
        hi == IF lo + COLS * ROWS < n THEN lo + COLS * ROWS ELSE n
    IN  [j \in 1..(hi - lo) |-> lo + j - 1]

\* C4: a full render of sheet k draws exactly the records
\* [k * pageSize, min(k * pageSize + pageSize, n)) in increasing order, and
\* the loop bounds of the sheets 0 .. total - 1 put every record on exactly
\* one sheet.
C4_SheetHoldsItsPage ==
    (pc = "ready" /\ FullRender) =>
        /\ Recs(canvas.stamps) = PageRecords(sheetIndex, Len(devices))
        /\ \A i \in 0..(Len(devices) - 1) :
              Cardinality({k \in 0..(TotalSheets(Len(devices)) - 1) :
                              \E G \in {[Globals EXCEPT !.sheetIndex = k]} :
                                  SheetStart(G) <= i /\ i < SheetEnd(G)}) = 1

\* 23 records: two sheets, and sheet 1 shows records 20..22
C4_Witness ==
    /\ Len(devices) = 23 /\ TotalSheets(Len(devices)) = 2
    /\ sheetIndex = 1 /\ FullRender
    /\ Recs(canvas.stamps) = <<20, 21, 22>>

\* the stamp drawSheet() makes of record i from the globals G, in the
\* direct-colour composer (riso = FALSE) or the print one (riso = TRUE)
StampOf(G, i, riso) == StampAt(G, i, riso, G.rng)

\* C5: for every stamp of the sheet on display, pickBorderStyle() returns
\* the same style in drawStamp as in drawStampRiso.
C5_SameBorderInBothComposers ==
    (pc = "ready" /\ FullRender) =>
        \A j \in 1..Len(canvas.stamps) :
            \E i \in {canvas.stamps[j].rec} :
                StampBorder(StampOf(Globals, i, FALSE))
                    = StampBorder(StampOf(Globals, i, TRUE))

\* C6: the border style of a stamp on display depends on baseSeed and the
\* record's id only: it is the style the same render picks with the trace
\* toggle flipped, and two stamps of one sheet whose records share their id
\* (and differ in release year) have the same style.
C6_BorderFromSeedAndIdOnly ==
    (pc = "ready" /\ FullRender) =>
        /\ \A j \in 1..Len(canvas.stamps) :
              \E st \in {canvas.stamps[j]} :
                  StampBorder(st)
                      = StampBorder(StampOf(
                            [Globals EXCEPT !.SHOW_TRACES = ~SHOW_TRACES],
                            st.rec, canvas.kind = "riso"))
        /\ \A j1, j2 \in 1..Len(canvas.stamps) :
              canvas.stamps[j1].key = canvas.stamps[j2].key
                  => StampBorder(canvas.stamps[j1])
                        = StampBorder(canvas.stamps[j2])

\* the globals with nothing left over from earlier renders
FreshGlobals ==
    [Globals EXCEPT !.rng = Unseeded, !.plates = EmptyPlates,
                    !.canvas = BlankCanvas]

\* C7: the sheet on display, with every stamp's stream, trace draws and
\* border draw, and in print mode the plates, is what drawSheet() makes of
\* sheetIndex, baseSeed, the trace toggle and the mode alone: the random
\* stream, the plates and the canvas earlier renders left have no effect.
C7_RenderIsRepeatable ==
    (pc = "ready" /\ FullRender) =>
        \E out \in {drawSheet(FreshGlobals)} :
            /\ canvas = out.canvas
            /\ rng = out.rng
            /\ canvas.kind = "riso" => plates = out.plates

\* sheet 0 is shown again in direct colour, with the traces on and the
\* first seed, after sheet 1 was rendered in print mode
C7_Witness ==
    /\ pc = "ready" /\ canvas.kind = "rgb" /\ sheetIndex = 0
    /\ SHOW_TRACES /\ reseeds = 0
    /\ plates.black # <<>> /\ plates.black[1].rec = PerSheet

\* C8: while p5.riso is missing, USE_RISO is false, nothing has been
\* exported, no ink plate exists or holds a mark, and no sheet is rendered
\* on the print path.
C8_NoRisoWhileUnavailable ==
    ~risoReady =>
        /\ ~USE_RISO /\ ~exported /\ ~layers
        /\ plates = EmptyPlates
        /\ canvas.kind # "riso"

\* both 'l' and 'e' have been pressed and refused, and a sheet is shown
C8_Witness ==
    /\ ~risoReady
    /\ console = {"riso not loaded", "export refused"}
    /\ canvas.kind = "rgb" /\ canvas.stamps # <<>>

\* C9: when 'l' is pressed while p5.riso is missing, the warning is on the
\* canvas once the handler has returned.
C9_WarningStaysVisible ==
    [][(~risoReady /\ KeyL) => canvas'.toast]_vars

\* C10: whenever a sheet is on display, in either mode, the ink plates
\* hold no mark of a record outside that sheet.
C10_PlatesHoldOnlyLastRender ==
    (pc = "ready" /\ FullRender) =>
        /\ \A j \in 1..Len(plates.black) :
              /\ SheetStart(Globals) <= plates.black[j].rec
              /\ plates.black[j].rec < SheetEnd(Globals)
        /\ \A j \in 1..Len(plates.teal) :
              /\ SheetStart(Globals) <= plates.teal[j]
              /\ plates.teal[j] < SheetEnd(Globals)

\* C11: when the table is missing or has no rows, from the end of setup()
\* on and after any key commands, the display shows the loading
\* placeholder and no stamp.
C11_PlaceholderWithoutRecords ==
    (pc = "ready" /\ (~table.ok \/ RecordCount = 0)) =>
        /\ canvas.kind = "loading"
        /\ canvas.stamps = <<>>

(***************************************************************************)
(* EasyGrid on its own: a grid built from options with a width and a       *)
(* height that are not negative and with module sizes that come out as     *)
(* whole numbers (negative ones included: the gutters may exceed the       *)
(* extent), and lookups on it.                                             *)
(***************************************************************************)
MaxGridCols == 4
MaxGridRows == 2
MaxGutter == 3
MaxModule == 2

GridOptionsOfAnyExtent ==
    {[x |-> org[1], y |-> org[2],
      width |-> c * mw + gx * (c - 1), height |-> r * mh + gy * (r - 1),
      cols |-> c, rows |-> r, gutterX |-> gx, gutterY |-> gy] :
        c \in 1..MaxGridCols, r \in 1..MaxGridRows,
        gx \in 0..MaxGutter, gy \in {0, MaxGutter},
        mw \in (0 - MaxModule)..MaxModule, mh \in {0 - MaxModule, 0, MaxModule},
        org \in {<<0, 0>>, <<3, 5>>}}

GridOptions == {o \in GridOptionsOfAnyExtent : o.width >= 0 /\ o.height >= 0}

getModuleByIndex(g, index) ==
    IF index < 0 \/ index >= Len(g.modules) THEN NullCell
    ELSE g.modules[index + 1]

NoTable == [ok |-> FALSE, rows |-> <<>>]

GridInit ==
    /\ table = NoTable
    /\ risoLib = FALSE
    /\ grid \in {EasyGrid(o) : o \in GridOptions}
    /\ InitialGlobals
    /\ call = NoCall

\* the function called returns to its caller
CallReturns ==
    /\ call # NoCall
    /\ call' = NoCall
    /\ UNCHANGED sketch

\* grid.getModule(col, row): no field of the grid is assigned
CallGetModule ==
    /\ call = NoCall
    /\ \E col, row \in (0 - 2)..(MaxGridCols + 1) :
          call' = [op |-> "getModule", col |-> col, row |-> row,
                   out |-> getModule(grid, col, row)]
    /\ UNCHANGED sketch

\* grid.getModuleByIndex(index): no field of the grid is assigned
CallGetModuleByIndex ==
    /\ call = NoCall
    /\ \E index \in (0 - 2)..(MaxGridCols * MaxGridRows + 1) :
          call' = [op |-> "getModuleByIndex", index |-> index,
                   out |-> getModuleByIndex(grid, index)]
    /\ UNCHANGED sketch

GridNext ==
    \/ CallGetModule
    \/ CallGetModuleByIndex
    \/ CallReturns

GridSpec == GridInit /\ [][GridNext]_vars

\* C12: getModule returns null for every (col, row) outside the grid and
\* getModuleByIndex for every index outside 0 .. cols * rows - 1 (and a
\* cell of the grid otherwise: a value in every case, never an exception);
\* neither call changes the grid.
C12_OutOfRangeLookupIsNull ==
    /\ [](call.op = "getModule" =>
            IF call.col < 0 \/ call.col >= grid.cols
                \/ call.row < 0 \/ call.row >= grid.rows
            THEN call.out = NullCell
            ELSE /\ call.out # NullCell
                 /\ call.out.col = call.col /\ call.out.row = call.row)
    /\ [](call.op = "getModuleByIndex" =>
            IF call.index < 0 \/ call.index >= grid.cols * grid.rows
            THEN call.out = NullCell
            ELSE call.out # NullCell /\ call.out.index = call.index)
    /\ [][(CallGetModule \/ CallGetModuleByIndex) => grid' = grid]_vars

\* both lookups have been refused just past the end of a 3 x 2 grid
C12_Witness ==
    /\ grid.cols = 3 /\ grid.rows = 2
    /\ \/ call.op = "getModuleByIndex" /\ call.index = 6
          /\ call.out = NullCell
       \/ call.op = "getModule" /\ call.col = 3 /\ call.row = 1
          /\ call.out = NullCell

\* the extent of a cell along each axis, whichever way its size points
Left(m) == IF m.width >= 0 THEN m.x ELSE m.x + m.width
Right(m) == IF m.width >= 0 THEN m.x + m.width ELSE m.x
Top(m) == IF m.height >= 0 THEN m.y ELSE m.y + m.height
Bottom(m) == IF m.height >= 0 THEN m.y + m.height ELSE m.y
Overlap(a, b) ==
    /\ Left(a) < Right(b) /\ Left(b) < Right(a)
    /\ Top(a) < Bottom(b) /\ Top(b) < Bottom(a)

\* the cells of g step by their size plus the gutter along both axes, from
\* the grid's origin to its far edges
TilesEvenly(g) ==
    /\ \A row \in 0..(g.rows - 1) : \A col \in 0..(g.cols - 2) :
          getModule(g, col + 1, row).x
              = getModule(g, col, row).x + getModule(g, col, row).width
                  + g.gutterX
    /\ \A col \in 0..(g.cols - 1) : \A row \in 0..(g.rows - 2) :
          getModule(g, col, row + 1).y
              = getModule(g, col, row).y + getModule(g, col, row).height
                  + g.gutterY
    /\ getModule(g, 0, 0).x = g.x /\ getModule(g, 0, 0).y = g.y
    /\ \A row \in 0..(g.rows - 1) :
          getModule(g, g.cols - 1, row).x
              + getModule(g, g.cols - 1, row).width = g.x + g.width
    /\ \A col \in 0..(g.cols - 1) :
          getModule(g, col, g.rows - 1).y
              + getModule(g, col, g.rows - 1).height = g.y + g.height

NoOverlap(g) ==
    \A i, j \in 1..Len(g.modules) :
        i # j => ~Overlap(g.modules[i], g.modules[j])

Utf8Unit(c) ==
    IF c < 128 THEN <<c>>
    ELSE IF c < 2048 THEN <<192 + (c \div 64), 128 + (c % 64)>>
    ELSE <<224 + (c \div 4096), 128 + ((c \div 64) % 64), 128 + (c % 64)>>

RECURSIVE Utf8(_)
Utf8(s) == IF s = <<>> THEN <<>> ELSE Utf8Unit(Head(s)) \o Utf8(Tail(s))

Fnv1aStep(h, b) == U32Mul(<<h[1], BitXor(h[2], b)>>, <<256, 403>>)

RECURSIVE Fnv1aFrom(_, _, _)
Fnv1aFrom(h, bytes, i) ==
    IF i > Len(bytes) THEN h
    ELSE Fnv1aFrom(Fnv1aStep(h, bytes[i]), bytes, i + 1)

Fnv1a(bytes) == Fnv1aFrom(<<33052, 40389>>, bytes, 1)

\* C14: the seed drawSheet gives the random stream of a stamp,
\* hash(`${baseSeed}::${id}`), is a 32-bit unsigned integer and equals the
\* FNV-1a hash, in exact arithmetic modulo 2^32, of the UTF-8 bytes of that
\* string.
C14_SeedIsFnv1a ==
    IsSeeded(rng) =>
        /\ StreamSeed(rng.key) \in (0..(W16 - 1)) \X (0..(W16 - 1))
        /\ StreamSeed(rng.key)
             = Fnv1a(Utf8(SeedKey(rng.key[1], rng.key[2])))


(***************************************************************************)
(* The sketch's helper functions on their own: each is called with         *)
(* arguments drawn from a bounded set and `call` records what it returned. *)
(***************************************************************************)
HelperInit ==
    /\ table = NoTable /\ risoLib = FALSE /\ grid = NoGrid
    /\ InitialGlobals
    /\ call = NoCall

(***************************************************************************)
(* autoLevelsGray(pg, clipLow, clipHigh, gamma) for gamma = 1.  An image   *)
(* is its sequence of pixels [r, g, b, a]; the clips are in hundredths.    *)
(* Luminance is kept in ten-thousandths (2126 r + 7152 g + 722 b), and the *)
(* quotients are exact: on the gray levels below they round as the         *)
(* source's doubles do.                                                    *)
(***************************************************************************)
MaxPixels == 3
GrayLevels == {0, 100, 200, 254, 255}
Alphas == {128, 255}

GrayPixel(v, a) == [r |-> v, g |-> v, b |-> v, a |-> a]

GrayImages ==
    UNION {[1..n -> {GrayPixel(v, a) : v \in GrayLevels, a \in Alphas}] :
             n \in 1..MaxPixels}

Lum10k(p) == 2126 * p.r + 7152 * p.g + 722 * p.b

\* Math.round of a non-negative quotient num / den
RoundDiv(num, den) == (2 * num + den) \div (2 * den)

\* the levels hist counts a pixel at
Levels(pg) == {RoundDiv(Lum10k(pg[i]), 10000) : i \in 1..Len(pg)}

\* cdf[level]: the number of pixels whose rounded luminance is <= level
Cdf(pg, level) ==
    Cardinality({i \in 1..Len(pg) : RoundDiv(Lum10k(pg[i]), 10000) <= level})

Min(a, b) == IF a < b THEN a ELSE b
Max(a, b) == IF a > b THEN a ELSE b
Least(S) == CHOOSE x \in S : \A y \in S : x <= y

ClipTarget(total, clip) == Max(0, Min(total - 1, (total * clip) \div 100))

\* while (lo < 256 && cdf[lo] <= loTarget) lo++
\* cdf grows only at a level of the image, so the loop stops at the first
\* such level whose cdf exceeds the target (loTarget < total: there is one)
LowCutoff(pg, loTarget) ==
    Least({lo \in Levels(pg) : Cdf(pg, lo) > loTarget})

\* while (hi >= 0 && cdf[hi] >= hiTarget) hi--
\* the loop runs down through every level whose cdf has reached the target
\* and stops just below the first of them
HighCutoff(pg, hiTarget) ==
    IF hiTarget <= 0 THEN 0 - 1
    ELSE Least({hi \in Levels(pg) : Cdf(pg, hi) >= hiTarget}) - 1

Cutoffs(pg, clipLow, clipHigh) ==
    LET total == Len(pg)
        lo == LowCutoff(pg, ClipTarget(total, clipLow))
        hi == HighCutoff(pg, ClipTarget(total, clipHigh))
    IN  IF hi <= lo THEN [lo |-> 0, hi |-> 255] ELSE [lo |-> lo, hi |-> hi]

\* Math.round(clamp((lum - lo) * 255 / (hi - lo), 0, 255))
Leveled(p, c) ==
    LET num == (Lum10k(p) - 10000 * c.lo) * 255
        den == 10000 * (c.hi - c.lo)
    IN  IF num < 0 THEN 0
        ELSE IF num > 255 * den THEN 255
        ELSE RoundDiv(num, den)

autoLevelsGray(pg, clipLow, clipHigh) ==
    LET c == Cutoffs(pg, clipLow, clipHigh)
    IN  [i \in 1..Len(pg) |-> GrayPixel(Leveled(pg[i], c), pg[i].a)]

CallAutoLevelsGray ==
    /\ call = NoCall
    /\ \E pg \in GrayImages, clip \in {<<0, 100>>, <<5, 95>>} :
         call' = [op |-> "autoLevelsGray", pg |-> pg,
                  clipLow |-> clip[1], clipHigh |-> clip[2],
                  cut |-> Cutoffs(pg, clip[1], clip[2]),
                  out |-> autoLevelsGray(pg, clip[1], clip[2])]
    /\ UNCHANGED sketch

(***************************************************************************)
(* wrapText(str, maxW, sizePx).  A string is the sequence of its           *)
(* characters; textWidth adds up the advance of each character at the      *)
(* size set.                                                               *)
(***************************************************************************)
MaxChars == 5
MaxWidth == 4
Chars == {"a", "W", " "}
Strings == UNION {[1..n -> Chars] : n \in 0..MaxChars}

CharWidth(c) == IF c = "W" THEN 2 ELSE 1

RECURSIVE textWidth(_)
textWidth(str) ==
    IF str = <<>> THEN 0 ELSE CharWidth(Head(str)) + textWidth(Tail(str))

\* str.split(/\s+/): the pieces between the runs of white space; a run at
\* the start or at the end leaves an empty piece there
RECURSIVE SplitFrom(_, _, _, _)
SplitFrom(str, i, cur, pieces) ==
    IF i > Len(str) THEN Append(pieces, cur)
    ELSE IF str[i] # " " THEN SplitFrom(str, i + 1, Append(cur, str[i]), pieces)
    ELSE IF i > 1 /\ str[i - 1] = " " THEN SplitFrom(str, i + 1, cur, pieces)
    ELSE SplitFrom(str, i + 1, <<>>, Append(pieces, cur))

Split(str) == SplitFrom(str, 1, <<>>, <<>>)

\* a ? a + ' ' + w : w
Joined(a, w) == IF a # <<>> THEN a \o <<" ">> \o w ELSE w

\* the loop of wrapText without its `!split` test: a later word that fits
\* still goes to line 1
RECURSIVE WrapLoopRefill(_, _, _, _, _, _)
WrapLoopRefill(words, i, maxW, line1, line2, split) ==
    IF i > Len(words) THEN <<line1, line2>>
    ELSE IF textWidth(Joined(line1, words[i])) <= maxW
    THEN WrapLoopRefill(words, i + 1, maxW, Joined(line1, words[i]), line2,
                        split)
    ELSE WrapLoopRefill(words, i + 1, maxW, line1, Joined(line2, words[i]),
                        TRUE)

RECURSIVE WrapLoop(_, _, _, _, _, _)
WrapLoop(words, i, maxW, line1, line2, split) ==
    IF i > Len(words) THEN <<line1, line2>>
    ELSE IF ~split /\ textWidth(Joined(line1, words[i])) <= maxW
    THEN WrapLoop(words, i + 1, maxW, Joined(line1, words[i]), line2, split)
    ELSE WrapLoop(words, i + 1, maxW, line1, Joined(line2, words[i]), TRUE)

wrapText(str, maxW) ==
    IF textWidth(str) <= maxW THEN <<str>>
    ELSE LET lines == WrapLoop(Split(str), 1, maxW, <<>>, <<>>, FALSE)
         IN  IF lines[2] # <<>> THEN lines ELSE <<lines[1]>>

CallWrapText ==
    /\ call = NoCall
    /\ \E str \in Strings, maxW \in 0..MaxWidth :
         call' = [op |-> "wrapText", str |-> str, maxW |-> maxW,
                  out |-> wrapText(str, maxW)]
    /\ UNCHANGED sketch

(***************************************************************************)
(* What setup() reads out of a years_active field.  The field is a         *)
(* sequence of characters ("endash" stands for the en dash); the two       *)
(* regular expressions are matched character by character.                 *)
(***************************************************************************)
MaxTokens == 4
YearTokens == {<<"1", "9", "8", "4">>, <<"2", "0", "0", "7">>}
DashTokens == {<<"-">>, <<"endash">>}
PresentTokens == {<<"p", "r", "e", "s", "e", "n", "t">>,
                  <<"P", "r", "e", "s", "e", "n", "t">>}
FieldTokens ==
    YearTokens \cup DashTokens \cup PresentTokens
        \cup {<<"1", "9">>, <<" ">>, <<"x">>}

RECURSIVE Flatten(_)
Flatten(tokens) ==
    IF tokens = <<>> THEN <<>> ELSE Head(tokens) \o Flatten(Tail(tokens))

YearFields == UNION {[1..n -> FieldTokens] : n \in 0..MaxTokens}

Digits == <<"0", "1", "2", "3", "4", "5", "6", "7", "8", "9">>
IsDigit(c) == \E d \in 1..10 : Digits[d] = c
DigitValue(c) == (CHOOSE d \in 1..10 : Digits[d] = c) - 1

\* toLowerCase()
toLowerCase(str) == [i \in 1..Len(str) |-> IF str[i] = "P" THEN "p" ELSE str[i]]

\* trim()
RECURSIVE trim(_)
trim(str) ==
    IF str = <<>> THEN str
    ELSE IF Head(str) = " " THEN trim(Tail(str))
    ELSE IF str[Len(str)] = " " THEN trim(SubSeq(str, 1, Len(str) - 1))
    ELSE str

\* replace(/[—–]/g, '-')
DashesToHyphen(str) ==
    [i \in 1..Len(str) |-> IF str[i] = "endash" THEN "-" ELSE str[i]]

\* replace(/\s+/g, ' ')
RECURSIVE CollapseSpaces(_)
CollapseSpaces(str) ==
    IF Len(str) < 2 THEN str
    ELSE IF str[1] = " " /\ str[2] = " " THEN CollapseSpaces(Tail(str))
    ELSE <<Head(str)>> \o CollapseSpaces(Tail(str))

FourDigitsAt(str, i) ==
    i + 3 <= Len(str) /\ \A k \in 0..3 : IsDigit(str[i + k])

\* int() of the four digits at i
Int4(str, i) ==
    1000 * DigitValue(str[i]) + 100 * DigitValue(str[i + 1])
        + 10 * DigitValue(str[i + 2]) + DigitValue(str[i + 3])

\* \s* from i: the first position that holds no white space
RECURSIVE SkipSpaces(_, _)
SkipSpaces(str, i) ==
    IF i <= Len(str) /\ str[i] = " " THEN SkipSpaces(str, i + 1) ELSE i

PresentAt(str, i) ==
    i + 6 <= Len(str)
        /\ SubSeq(str, i, i + 6) = <<"p", "r", "e", "s", "e", "n", "t">>

NoMatch == [release_year |-> NaN, discontinued |-> NaN, matched |-> FALSE]

\* /(\d{4})\s*-\s*(\d{4}|present)/ tried at position i
RangeAt(str, i) ==
    IF ~FourDigitsAt(str, i) THEN NoMatch
    ELSE LET j == SkipSpaces(str, i + 4)
         IN  IF j > Len(str) \/ str[j] # "-" THEN NoMatch
             ELSE LET k == SkipSpaces(str, j + 1)
                  IN  IF FourDigitsAt(str, k)
                      THEN [release_year |-> Int4(str, i),
                            discontinued |-> Int4(str, k), matched |-> TRUE]
                      ELSE IF PresentAt(str, k)
                      THEN [release_year |-> Int4(str, i),
                            discontinued |-> Int4(str, i), matched |-> TRUE]
                      ELSE NoMatch

\* str.match(...): the leftmost position where the expression matches
RECURSIVE RangeMatch(_, _)
RangeMatch(str, i) ==
    IF i > Len(str) THEN NoMatch
    ELSE IF RangeAt(str, i).matched THEN RangeAt(str, i)
    ELSE RangeMatch(str, i + 1)

\* str.match(/\d{4}/g): the matches from left to right, none overlapping
RECURSIVE AllYears(_, _)
AllYears(str, i) ==
    IF i > Len(str) THEN <<>>
    ELSE IF FourDigitsAt(str, i) THEN <<Int4(str, i)>> \o AllYears(str, i + 4)
    ELSE AllYears(str, i + 1)

\* lines 110-123: the two years before discontinued is defaulted
YearsFound(field) ==
    LET yrs == CollapseSpaces(DashesToHyphen(trim(toLowerCase(field))))
        m   == RangeMatch(yrs, 1)
        yy  == AllYears(yrs, 1)
    IN  IF m.matched
        THEN [release_year |-> m.release_year, discontinued |-> m.discontinued]
        ELSE [release_year |-> IF Len(yy) >= 1 THEN yy[1] ELSE NaN,
              discontinued |-> IF Len(yy) > 1 THEN yy[2] ELSE NaN]

\* the parse without lines 125-126
YearsActiveAsFound(field) == YearsFound(field)

YearsActive(field) ==
    LET y == YearsFound(field)
    IN  IF y.release_year # NaN /\ y.discontinued = NaN
        THEN [y EXCEPT !.discontinued = y.release_year]
        ELSE y

CallYearsActive ==
    /\ call = NoCall
    /\ \E tokens \in YearFields :
         call' = [op |-> "years_active", tokens |-> tokens,
                  out |-> YearsActive(Flatten(tokens))]
    /\ UNCHANGED sketch

(***************************************************************************)
(* The polylines drawCircuits and drawCircuits_toPG trace.  Coordinates    *)
(* are in units of 1 / 65536 pixel: random(a, b) for the draw that left    *)
(* the stream at z is a + z * (b - a) / 2^32, cut to that resolution.      *)
(***************************************************************************)
FRAME_PAD == 12
INNER_INSET == 5

getInnerFrame(x, y, w, h) ==
    [ix |-> x + FRAME_PAD + INNER_INSET + 5,
     iy |-> y + FRAME_PAD + INNER_INSET + 5,
     iw |-> (w - FRAME_PAD * 2) - (INNER_INSET + 5) * 2,
     ih |-> (h - FRAME_PAD * 2) - (INNER_INSET + 5) * 2]

\* random(a, b) for whole a < b
RandomBetween(z, a, b) ==
    a * W16 + z[1] * (b - a) + ((z[2] * (b - a)) \div W16)

\* the limits the two composers keep a point between (whole pixels):
\* where a polyline may start and what its later points are clamped to
TraceLimits(x, y, w, h) ==
    LET f == getInnerFrame(x, y, w, h)
        footerTop == y + h - 150
    IN  [left |-> f.ix, right |-> f.ix + f.iw, top |-> f.iy,
         startBottom |-> f.iy + f.ih - 60,
         bottom |-> Min(f.iy + f.ih - 70, footerTop - 8),
         segments |-> 3, stepLow |-> 22, stepHigh |-> 42]

TraceLimits_toPG(x, y, w, h) ==
    LET f == getInnerFrame(x, y, w, h)
    IN  [left |-> f.ix, right |-> f.ix + f.iw, top |-> f.iy,
         startBottom |-> f.iy + f.ih,
         bottom |-> f.iy + f.ih,
         segments |-> 4, stepLow |-> 20, stepHigh |-> 45]

\* the points after <<px, py>>: per segment one draw for the step and one
\* for the direction, then the clamp
RECURSIVE Segments(_, _, _, _, _)
Segments(z, px, py, lim, s) ==
    IF s = 0 THEN <<>>
    ELSE LET zs   == LcgNext(z)
             zd   == LcgNext(zs)
             step == RandomBetween(zs, lim.stepLow, lim.stepHigh)
             dir  == Floor4(zd)
             qx   == IF dir = 0 THEN px + step
                     ELSE IF dir = 1 THEN px - step ELSE px
             qy   == IF dir = 2 THEN py + step
                     ELSE IF dir = 3 THEN py - step ELSE py
             cx   == constrain(qx, lim.left * W16, lim.right * W16)
             cy   == constrain(qy, lim.top * W16, lim.bottom * W16)
         IN  <<(<<cx, cy>>)>> \o Segments(zd, cx, cy, lim, s - 1)

\* one polyline, drawn from the stream in state z
Polyline(z, lim) ==
    LET zx == LcgNext(z)
        zy == LcgNext(zx)
        px == RandomBetween(zx, lim.left, lim.right)
        py == RandomBetween(zy, lim.top, lim.startBottom)
    IN  <<(<<px, py>>)>> \o Segments(zy, px, py, lim, lim.segments)

\* the polylines of one stamp whose stream was seeded with `seed`:
\* polyline i starts after the draws of the i polylines before it
Polylines(seed, count, lim) ==
    [i \in 1..count |->
        Polyline(LcgSkip(seed, (i - 1) * (2 + 2 * lim.segments)), lim)]

TraceShapes(d, x, y, w, h, r, show) ==
    IF ~show THEN <<>>
    ELSE Polylines(StreamState(r), BaseLines(d), TraceLimits(x, y, w, h))

TraceShapes_toPG(d, x, y, w, h, r, show) ==
    IF ~show THEN <<>>
    ELSE Polylines(StreamState(r), NumLines(d), TraceLimits_toPG(x, y, w, h))

\* the records and the cells the traces are drawn for
TraceRecords ==
    {[id |-> id, release_year |-> yr] :
        id \in {<<68>>, DecimalString(3)}, yr \in {NaN, 1984, 2007}}

CallDrawCircuits ==
    /\ call = NoCall
    /\ \E d \in TraceRecords, k \in 1..PerSheet, riso, show \in BOOLEAN :
         \E cell \in {EasyGrid(SketchGridOptions).modules[k]} :
         \E r \in {SeededStream(InitialBaseSeed, d, Unseeded)} :
           call' = [op |-> IF riso THEN "drawCircuits_toPG"
                           ELSE "drawCircuits",
                    d |-> d, cell |-> cell, show |-> show,
                    lim |-> IF riso
                            THEN TraceLimits_toPG(cell.x, cell.y, cell.width,
                                                  cell.height)
                            ELSE TraceLimits(cell.x, cell.y, cell.width,
                                             cell.height),
                    out |-> IF riso
                            THEN TraceShapes_toPG(d, cell.x, cell.y,
                                                  cell.width, cell.height,
                                                  r, show)
                            ELSE TraceShapes(d, cell.x, cell.y, cell.width,
                                             cell.height, r, show)]
    /\ UNCHANGED sketch

(***************************************************************************)
(* The reason block of drawText and drawText_toPG: the lines the loop      *)
(* builds from d.reason_for_obsolescence and then draws.                   *)
(***************************************************************************)
MaxWords == 4
ReasonWords == {<<"a">>, <<"W">>}

RECURSIVE JoinWords(_)
JoinWords(words) ==
    IF words = <<>> THEN <<>>
    ELSE IF Len(words) = 1 THEN words[1]
    ELSE words[1] \o <<" ">> \o JoinWords(Tail(words))

ReasonTexts ==
    {JoinWords(words) : words \in UNION {[1..n -> ReasonWords] : n \in 0..MaxWords}}

\* boxes at least as wide as the widest word
ReasonWidths == {boxW \in 0..MaxWidth : \A w \in ReasonWords : textWidth(w) <= boxW}

\* the loop over words: `lines` so far, the line `cur` being filled; the
\* loop is left when the second line has been pushed
RECURSIVE ReasonLoop(_, _, _, _, _)
ReasonLoop(words, i, boxW, lines, cur) ==
    IF i > Len(words) THEN <<lines, cur>>
    ELSE IF textWidth(Joined(cur, words[i])) <= boxW
    THEN ReasonLoop(words, i + 1, boxW, lines, Joined(cur, words[i]))
    ELSE IF Len(lines) + 1 = 3 - 1
    THEN <<Append(lines, cur), words[i]>>
    ELSE ReasonLoop(words, i + 1, boxW, Append(lines, cur), words[i])

ReasonLines(reason, boxW) ==
    IF reason = <<>> THEN <<>>
    ELSE LET done == ReasonLoop(Split(trim(reason)), 1, boxW, <<>>, <<>>)
         IN  IF Len(done[1]) < 3 /\ done[2] # <<>>
             THEN Append(done[1], done[2]) ELSE done[1]

CallReasonLines ==
    /\ call = NoCall
    /\ \E reason \in ReasonTexts, boxW \in ReasonWidths :
         call' = [op |-> "reason", reason |-> reason, boxW |-> boxW,
                  out |-> ReasonLines(reason, boxW)]
    /\ UNCHANGED sketch

(***************************************************************************)
(* The steps of the two stamp composers in the order their statements run: *)
(* the function called, what it draws, and the draws it takes from the     *)
(* random stream.                                                          *)
(***************************************************************************)
Step(fn, kind, draws) == [fn |-> fn, kind |-> kind, draws |-> draws]

StampSteps(d, show) ==
    <<Step("rect", "panel", 0),
      Step("drawCircuits", "traces", drawCircuits(d, show)),
      Step("drawImage", "image", 0),
      Step("pickBorderStyle", "border pick", 1),
      Step("drawBorder", "border", 0),
      Step("drawPriceStamp", "price", 0),
      Step("drawRarityStars", "stars", 0),
      Step("drawCategoryBadge", "badge", 0),
      Step("drawText", "text", 0)>>

StampRisoSteps(d, show) ==
    <<Step("rect", "panel", 0),
      Step("drawCircuits_toPG", "traces", drawCircuits_toPG(d, show)),
      Step("pickBorderStyle", "border pick", 1),
      Step("drawBorder_toPG", "border", 0),
      Step("drawPriceStamp_toPG", "price", 0),
      Step("drawRarityStars_toPG", "stars", 0),
      Step("drawCategoryBadge_toPG", "badge", 0),
      Step("drawText_toPG", "text", 0),
      Step("L_BLACK.image", "black plate", 0),
      Step("drawImageHalftone_toLayer", "image", 0)>>

CallDrawStamp ==
    /\ call = NoCall
    /\ \E d \in TraceRecords, riso, show \in BOOLEAN :
         call' = [op |-> IF riso THEN "drawStampRiso" ELSE "drawStamp",
                  d |-> d, show |-> show,
                  out |-> IF riso THEN StampRisoSteps(d, show)
                          ELSE StampSteps(d, show)]
    /\ UNCHANGED sketch

(***************************************************************************)
(* The price: what setup() parses out of original_price, and the medallion *)
(* drawPriceStamp and drawPriceStamp_toPG make of it.  A price that        *)
(* parseFloat cannot read is NaN.                                          *)
(***************************************************************************)
MaxPriceChars == 4
PriceChars == {"$", "0", "5", ",", "x"}
PriceFields == UNION {[1..n -> PriceChars] : n \in 0..MaxPriceChars}

IsPriceChar(c) == IsDigit(c) \/ c = ","

\* the end of the run of digits and commas that starts at i
RECURSIVE PriceRunEnd(_, _)
PriceRunEnd(str, i) ==
    IF i <= Len(str) /\ IsPriceChar(str[i]) THEN PriceRunEnd(str, i + 1)
    ELSE i

\* priceRaw.match(/[\d,]+/): the leftmost run of digits and commas, or
\* <<>> when the field holds none
FirstPriceRun(str) ==
    LET starts == {i \in 1..Len(str) : IsPriceChar(str[i])}
    IN  IF starts = {} THEN <<>>
        ELSE LET i == Least(starts)
             IN  SubSeq(str, i, PriceRunEnd(str, i) - 1)

\* replace(/,/g, '')
WithoutCommas(str) == SelectSeq(str, LAMBDA c : c # ",")

\* parseFloat / parseInt of a string of digits; NaN for the empty string
RECURSIVE ParseNumber(_)
ParseNumber(digits) ==
    IF digits = <<>> THEN NaN
    ELSE IF Len(digits) = 1 THEN DigitValue(digits[1])
    ELSE 10 * ParseNumber(SubSeq(digits, 1, Len(digits) - 1))
           + DigitValue(digits[Len(digits)])

PriceValue(priceRaw) ==
    IF FirstPriceRun(priceRaw) = <<>> THEN 0
    ELSE ParseNumber(WithoutCommas(FirstPriceRun(priceRaw)))

\* the medallion's text: d.original_price.match(/(\D*)(\d+(?:[,\d]*)?)/)
\* gives the field up to its first digit as the currency and the run of
\* digits and commas from there as the amount; "$?" without a match
DisplayPrice(original_price) ==
    LET digitsAt == {i \in 1..Len(original_price) : IsDigit(original_price[i])}
    IN  IF digitsAt = {} THEN [text |-> "$?"]
        ELSE LET i == Least(digitsAt)
                 currency == trim(SubSeq(original_price, 1, i - 1))
                 amount == ParseNumber(WithoutCommas(
                               SubSeq(original_price, i,
                                      PriceRunEnd(original_price, i) - 1)))
             IN  [text |-> "amount",
                  currency |-> IF currency = <<>> THEN <<"$">> ELSE currency,
                  amount |-> amount, inThousands |-> amount >= 1000]

\* what either function draws: nothing, or the medallion with its text
PriceStamp(d) ==
    IF d.price_value = 0 THEN <<>>
    ELSE <<[shape |-> "medallion", label |-> DisplayPrice(d.original_price)]>>

CallDrawPriceStamp ==
    /\ call = NoCall
    /\ \E priceRaw \in PriceFields, riso \in BOOLEAN :
         \E d \in {[original_price |-> priceRaw,
                    price_value |-> PriceValue(priceRaw)]} :
           call' = [op |-> IF riso THEN "drawPriceStamp_toPG"
                           ELSE "drawPriceStamp",
                    d |-> d, out |-> PriceStamp(d)]
    /\ UNCHANGED sketch

HelperNext ==
    \/ CallAutoLevelsGray
    \/ CallWrapText
    \/ CallYearsActive
    \/ CallDrawCircuits
    \/ CallReasonLines
    \/ CallDrawStamp
    \/ CallDrawPriceStamp
    \/ CallReturns

HelperSpec == HelperInit /\ [][HelperNext]_vars

FullRange(pg) ==
    /\ \E i \in 1..Len(pg) : pg[i].r = 0
    /\ \E i \in 1..Len(pg) : pg[i].r = 255

\* C15: autoLevelsGray with clipLow = 0, clipHigh = 1 and gamma = 1, given
\* a grayscale image that holds a pixel of value 0 and a pixel of value
\* 255, cuts at 0 and 255 and returns every pixel with the value and the
\* alpha it came with.
C15_FullRangeImageUnchanged ==
    (/\ call.op = "autoLevelsGray"
     /\ call.clipLow = 0 /\ call.clipHigh = 100
     /\ FullRange(call.pg))
        => /\ call.cut = [lo |-> 0, hi |-> 255]
           /\ call.out = call.pg


\* the words of a string: its pieces that are not empty
Words(str) == SelectSeq(Split(str), LAMBDA w : w # <<>>)

RECURSIVE WordsOfLines(_)
WordsOfLines(lines) ==
    IF lines = <<>> THEN <<>>
    ELSE Words(Head(lines)) \o WordsOfLines(Tail(lines))

\* C16: wrapText returns the input as its only line when the whole string
\* fits in the width; otherwise it returns one or two lines whose words,
\* read in order, are the words of the input, line 1 fits in the width, and
\* line 2 starts with a word that did not fit at the end of line 1.
C16_WrapKeepsEveryWord ==
    call.op = "wrapText" =>
        IF textWidth(call.str) <= call.maxW
        THEN call.out = <<call.str>>
        ELSE /\ Len(call.out) \in {1, 2}
             /\ WordsOfLines(call.out) = Words(call.str)
             /\ textWidth(call.out[1]) <= call.maxW
             /\ Len(call.out) = 2 =>
                  textWidth(Joined(call.out[1], Words(call.out[2])[1]))
                      > call.maxW

\* a string of three words that does not fit: the first on line 1, the
\* other two, the last of which would have fitted on line 1, on line 2
C16_Witness ==
    /\ call.op = "wrapText"
    /\ call.str = <<"a", " ", "W", " ", "a">>
    /\ call.maxW = 3
    /\ call.out = <<(<<"a">>), (<<"W", " ", "a">>)>>


\* the tokens of a field that are not white space
Squeezed(tokens) == SelectSeq(tokens, LAMBDA t : t # <<" ">>)

\* the lengths of the field's maximal runs of digits that are four digits
\* long or longer
RECURSIVE LongDigitRuns(_, _, _)
LongDigitRuns(str, i, run) ==
    IF i > Len(str) THEN (IF run >= 4 THEN <<run>> ELSE <<>>)
    ELSE IF IsDigit(str[i]) THEN LongDigitRuns(str, i + 1, run + 1)
    ELSE (IF run >= 4 THEN <<run>> ELSE <<>>) \o LongDigitRuns(str, i + 1, 0)

\* the year a field holds when exactly one run of digits in it is four
\* digits long and none is longer
TheYear(str) == AllYears(str, 1)[1]

\* C17: a field "Y1-Y2" (either dash, white space allowed around it) gives
\* release Y1 and discontinuation Y2; "Y1-present" gives Y1 and Y1; a field
\* that holds exactly one 4-digit year Y gives Y and Y; a field with no run
\* of four digits leaves both unknown; and in every case the discontinuation
\* year is known exactly when the release year is.
C17_YearsActiveParsed ==
    call.op = "years_active" =>
        LET sq    == Squeezed(call.tokens)
            field == Flatten(call.tokens)
            runs  == LongDigitRuns(field, 1, 0)
        IN  /\ (Len(sq) = 3 /\ sq[1] \in YearTokens /\ sq[2] \in DashTokens
                  /\ sq[3] \in YearTokens)
                 => call.out = [release_year |-> Int4(sq[1], 1),
                                discontinued |-> Int4(sq[3], 1)]
            /\ (Len(sq) = 3 /\ sq[1] \in YearTokens /\ sq[2] \in DashTokens
                  /\ sq[3] \in PresentTokens)
                 => call.out = [release_year |-> Int4(sq[1], 1),
                                discontinued |-> Int4(sq[1], 1)]
            /\ runs = <<4>>
                 => call.out = [release_year |-> TheYear(field),
                                discontinued |-> TheYear(field)]
            /\ runs = <<>>
                 => call.out = [release_year |-> NaN, discontinued |-> NaN]
            /\ (call.out.discontinued # NaN) <=> (call.out.release_year # NaN)

\* the field "1984 x": one bare year, mirrored into the discontinuation year
C17_Witness ==
    /\ call.op = "years_active"
    /\ call.tokens = <<(<<"1", "9", "8", "4">>), (<<" ">>), (<<"x">>)>>
    /\ call.out = [release_year |-> 1984, discontinued |-> 1984]


\* the points of all the polylines of a call
TracePoints(shapes) ==
    UNION {{shapes[i][j] : j \in 1..Len(shapes[i])} : i \in 1..Len(shapes)}

\* C18: every point of every polyline drawCircuits or drawCircuits_toPG
\* traces, the first point of a polyline included, lies in the inner frame
\* and no lower than the bound the composer clamps the later points to.
C18_TracesInFrameAboveFooter ==
    call.op \in {"drawCircuits", "drawCircuits_toPG"} =>
        LET f == getInnerFrame(call.cell.x, call.cell.y, call.cell.width,
                               call.cell.height)
        IN  \A p \in TracePoints(call.out) :
              /\ f.ix * W16 <= p[1] /\ p[1] <= (f.ix + f.iw) * W16
              /\ f.iy * W16 <= p[2] /\ p[2] <= (f.iy + f.ih) * W16
              /\ p[2] <= call.lim.bottom * W16


\* the words left undrawn once the first k lines are drawn
Undrawn(text, lines, k) ==
    LET all == Words(text)
        used == Len(WordsOfLines(SubSeq(lines, 1, k)))
    IN  SubSeq(all, used + 1, Len(all))

\* C19: the reason block is at most 3 lines, and every line, the third
\* included, holds the longest run of the next undrawn words that fits in
\* the width: the words of the line are the next undrawn ones, and either
\* no word is left after it or the next one would not fit on it.
C19_ReasonWrapIsGreedy ==
    call.op = "reason" =>
        /\ Len(call.out) <= 3
        /\ \A k \in 1..Len(call.out) :
             LET before == Undrawn(call.reason, call.out, k - 1)
                 after  == Undrawn(call.reason, call.out, k)
                 line   == Words(call.out[k])
             IN  /\ Len(line) <= Len(before)
                 /\ line = SubSeq(before, 1, Len(line))
                 /\ textWidth(call.out[k]) <= call.boxW
                 /\ after # <<>> =>
                      textWidth(Joined(call.out[k], after[1])) > call.boxW


\* what the steps draw, in order, the black plate's transfer left out
StepKinds(steps) ==
    LET drawn == SelectSeq(steps, LAMBDA st : st.kind # "black plate")
    IN  [i \in 1..Len(drawn) |-> drawn[i].kind]

\* the place of the first step of a kind
StepAt(steps, kind) == CHOOSE i \in 1..Len(steps) : steps[i].kind = kind

\* C20: drawStamp and drawStampRiso both run panel, traces, product image,
\* border pick, border, price, stars, badge, text in this order, and the
\* border pick is the first step after the traces that draws from the
\* random stream.
C20_StepsInOrder ==
    call.op \in {"drawStamp", "drawStampRiso"} =>
        /\ StepKinds(call.out)
             = <<"panel", "traces", "image", "border pick", "border",
                 "price", "stars", "badge", "text">>
        /\ \A i \in (StepAt(call.out, "traces") + 1)
                      ..(StepAt(call.out, "border pick") - 1) :
             call.out[i].draws = 0


HasDigit(str) == \E i \in 1..Len(str) : IsDigit(str[i])

\* C21: drawPriceStamp and drawPriceStamp_toPG draw the medallion only for a
\* record whose price parsed to a number that is not zero; a price field
\* without a digit (one whose only digit-or-comma characters are commas
\* included) parses to the unknown value 0 and nothing is drawn for it.
C21_MedallionOnlyForParsedPrice ==
    call.op \in {"drawPriceStamp", "drawPriceStamp_toPG"} =>
        /\ call.out # <<>> => call.d.price_value \notin {0, NaN}
        /\ ~HasDigit(call.d.original_price) =>
             call.d.price_value = 0 /\ call.out = <<>>


\* the plates a print-mode render that composites the stamps of the
\* current sheetIndex, baseSeed and trace toggle leaves
PrintRender(G) ==
    LET res == SheetLoop(G, SheetStart(G), TRUE, Unseeded, <<>>)
    IN  [reg |-> TRUE, black |-> res.stamps,
         teal |-> WithImage(G, res.stamps)]

\* C22: whenever 'e' saves the two plates, they hold the complete
\* print-mode render of the current sheetIndex, baseSeed and trace toggle,
\* also while image loads are outstanding and when there is no record.
C22_ExportSavesCurrentRender ==
    [][(KeyE /\ USE_RISO /\ ensureRisoLayers(layers).ok)
          => plates = PrintRender(Globals)]_vars


\* the cell drawSheet looks up for the record at offset idx of its sheet
LookedUp(G, idx) == getModule(G.grid, idx % COLS, idx \div COLS)

\* C23: every lookup drawSheet makes is inside the grid, so getModule
\* gives it a cell and never null: the record at offset idx of the sheet
\* gets the cell of column idx mod COLS and row floor(idx / COLS), and the
\* records of one sheet get pairwise distinct cells.  This holds for the
\* lookups drawSheet makes on the current globals and for the stamps of
\* the sheet on display, in either mode.
C23_LookupsStayInGrid ==
    pc = "ready" =>
        /\ grid # NoGrid =>
             \A idx \in 0..(SheetEnd(Globals) - SheetStart(Globals) - 1) :
                /\ LookedUp(Globals, idx) # NullCell
                /\ LookedUp(Globals, idx).col = idx % COLS
                /\ LookedUp(Globals, idx).row = idx \div COLS
        /\ FullRender =>
             /\ \A j \in 1..Len(canvas.stamps) :
                   canvas.stamps[j].cell = j - 1
             /\ \A j, k \in 1..Len(canvas.stamps) :
                   j # k => canvas.stamps[j].cell # canvas.stamps[k].cell
             /\ Len(canvas.stamps) <= PerSheet

\* the last sheet but one of three, full: its 20 records in the 20 cells,
\* reached by navigating
C23_Witness ==
    /\ pc = "ready" /\ FullRender
    /\ SheetTotal(Len(devices)) = 3 /\ sheetIndex = 1
    /\ Len(canvas.stamps) = PerSheet
    /\ canvas.stamps[PerSheet].rec = 2 * PerSheet - 1
    /\ canvas.stamps[PerSheet].cell = PerSheet - 1

=============================================================================
